---- MODULE Spec2Model ----
(***************************************************************************)
(* The semantic checker of apla-lang (src/src/checker/checker.rs).         *)
(*                                                                         *)
(* Arc<Mutex<..>> records live in three arenas (vars, funs, classes); an   *)
(* Arc is an index into its arena, so aliasing is sharing of an index.     *)
(* Option<T> is a sequence of length 0 (None) or 1 (Some).                 *)
(* The scope chain is a sequence: scope[1] is Root, scope[Len(scope)] is   *)
(* Checker.scope, and the parent of scope[i] is scope[i-1].                *)
(* A panic aborts the process: status becomes "failed" and nothing is      *)
(* returned.                                                               *)
(*                                                                         *)
(* The depth-first walk is flattened at the two body loops (function body, *)
(* class body): entering a body pushes a frame, each body statement is one *)
(* step, leaving the body pops the frame and finishes the handler.         *)
(***************************************************************************)
EXTENDS Integers, Sequences, FiniteSets, TLC

\* ------------------------------------------------------------------ bounds
\* nodes one walk hands to check_node, per specification, and nesting of bodies
MaxNodes == 4
MaxMemberNodes == 5
MaxCallNodes == 4
MaxTargetNodes == 3
MaxFieldNodes == 6
MaxTypeNodes == 4
MaxReturnNodes == 4
MaxInitNodes == 3
MaxMethodNodes == 4
MaxDepth == 3

\* ------------------------------------------------------------ Option, types
None == <<>>
Some(x) == <<x>>
IsSome(o) == o # <<>>
Unwrap(o) == o[1]

Void == [k |-> "Void", name |-> ""]
CDecimal == [k |-> "CDecimal", name |-> ""]
CString == [k |-> "CString", name |-> ""]
Custom(s) == [k |-> "Custom", name |-> s]

NumericAliases == {"c_char", "c_short", "c_int", "c_long", "c_float", "c_double"}
StringAlias == "c_string"

\* impl Display for DataType; CString is todo!() and panics
to_string_panics(dt) == dt.k = "CString"
to_string(dt) ==
    CASE dt.k = "Void" -> "void"
      [] dt.k = "CDecimal" -> "int"
      [] dt.k = "Custom" -> dt.name
      [] OTHER -> "<todo>"

\* check_data_type that only tries the aliases of the expected side
check_data_type_forward(expected, found) ==
    IF expected = found THEN TRUE
    ELSE IF expected.k = "CDecimal" /\ found.k = "Custom" /\ found.name \in NumericAliases
        THEN TRUE
    ELSE expected.k = "CString" /\ found.k = "Custom" /\ found.name = StringAlias

\* check_data_type that also lets two numeric aliases match each other
check_data_type_aliases(expected, found) ==
    \/ expected = found
    \/ /\ expected.k \in {"CDecimal", "Custom"} /\ found.k \in {"CDecimal", "Custom"}
       /\ expected.k = "Custom" => expected.name \in NumericAliases
       /\ found.k = "Custom" => found.name \in NumericAliases
    \/ /\ expected.k = "CString" /\ found = [k |-> "Custom", name |-> StringAlias]
    \/ /\ found.k = "CString" /\ expected = [k |-> "Custom", name |-> StringAlias]

\* check_data_type without the alias rules: only equal types match
check_data_type_equal(expected, found) == expected = found

\* Checker::check_data_type
check_data_type(expected, found) ==
    IF expected = found THEN TRUE
    ELSE IF expected.k = "CDecimal" /\ found.k = "Custom" /\ found.name \in NumericAliases
        THEN TRUE
    ELSE IF expected.k = "CString" /\ found.k = "Custom" /\ found.name = StringAlias
        THEN TRUE
    ELSE CASE found.k = "CDecimal" ->
                  expected.k = "Custom" /\ expected.name \in NumericAliases
           [] found.k = "CString" ->
                  expected.k = "Custom" /\ expected.name = StringAlias
           [] OTHER -> FALSE

\* ------------------------------------------------------- symbols and scopes
NodeInfo(data_type, symbol) == [data_type |-> data_type, symbol |-> symbol]
VariableSymbol(var_type, name, data_type, initialized) ==
    [var_type |-> var_type, name |-> name, data_type |-> data_type,
     initialized |-> initialized]
FunctionSymbol(name, data_type, function_type, params) ==
    [name |-> name, data_type |-> data_type, function_type |-> function_type,
     params |-> params]
ClassSymbol(name) == [name |-> name, fields |-> <<>>, functions |-> <<>>]
SymVariable(id) == [k |-> "Variable", id |-> id]
SymFunction(id) == [k |-> "Function", id |-> id]
SymClass(id) == [k |-> "Class", id |-> id]

RootType == [k |-> "Root", name |-> "", data_type |-> Void]
FunctionType(name, data_type) == [k |-> "Function", name |-> name, data_type |-> data_type]
ClassType(name) == [k |-> "Class", name |-> name, data_type |-> Void]

\* Scope::new
NewScope(scope_type) ==
    [scope |-> scope_type, variables |-> <<>>, functions |-> <<>>,
     classes |-> <<>>, selected |-> None]

\* first index of ids whose record in arena is called name, 0 if there is none
RECURSIVE FindFrom(_, _, _, _)
FindFrom(arena, ids, name, j) ==
    IF j > Len(ids) THEN 0
    ELSE IF arena[ids[j]].name = name THEN j
    ELSE FindFrom(arena, ids, name, j + 1)
Find(arena, ids, name) == FindFrom(arena, ids, name, 1)

\* the lookups return the symbol found and the chain as the lookup leaves it
Looked(res, sc) == [res |-> res, scope |-> sc, relock |-> FALSE]

\* get_variable that keeps the override when the lookup in it misses
RECURSIVE get_variable_keep(_, _, _, _)
get_variable_keep(st, sc, i, name) ==
    IF IsSome(sc[i].selected) THEN
        LET var == get_variable_keep(st, sc[i].selected, 1, name).res
        IN Looked(var, IF IsSome(var) THEN [sc EXCEPT ![i].selected = None] ELSE sc)
    ELSE LET j == Find(st.vars, sc[i].variables, name) IN
        IF j # 0 THEN Looked(Some(sc[i].variables[j]), sc)
        ELSE IF i > 1 THEN get_variable_keep(st, sc, i - 1, name)
        ELSE Looked(None, sc)

\* Scope::get_variable, on scope i of chain sc
RECURSIVE get_variable(_, _, _, _)
get_variable(st, sc, i, name) ==
    IF IsSome(sc[i].selected) THEN
        LET var == get_variable(st, sc[i].selected, 1, name).res
        IN Looked(var, [sc EXCEPT ![i].selected = None])
    ELSE LET j == Find(st.vars, sc[i].variables, name) IN
        IF j # 0 THEN Looked(Some(sc[i].variables[j]), sc)
        ELSE IF i > 1 THEN get_variable(st, sc, i - 1, name)
        ELSE Looked(None, sc)

\* Scope::get_class, on scope i of chain sc
RECURSIVE get_class(_, _, _, _)
get_class(st, sc, i, name) ==
    IF IsSome(sc[i].selected) THEN
        LET class == get_class(st, sc[i].selected, 1, name).res
        IN Looked(class, [sc EXCEPT ![i].selected = None])
    ELSE LET j == Find(st.classes, sc[i].classes, name) IN
        IF j # 0 THEN Looked(Some(sc[i].classes[j]), sc)
        ELSE IF i > 1 THEN get_class(st, sc, i - 1, name)
        ELSE Looked(None, sc)

\* the function records a scan of ids for name locks, one after the other
Scanned(arena, ids, name) ==
    LET j == Find(arena, ids, name)
    IN {ids[n] : n \in 1..(IF j = 0 THEN Len(ids) ELSE j)}

\* Scope::get_function, on scope i of chain sc. The scan locks each record it
\* passes; locking a record whose guard check_function_call still holds never
\* returns (relock).
RECURSIVE get_function(_, _, _, _)
get_function(st, sc, i, name) ==
    IF IsSome(sc[i].selected) THEN
        LET fun == get_function(st, sc[i].selected, 1, name)
        IN [res |-> fun.res, scope |-> [sc EXCEPT ![i].selected = None],
            relock |-> fun.relock]
    ELSE LET j == Find(st.funs, sc[i].functions, name) IN
        IF Scanned(st.funs, sc[i].functions, name) \cap st.held # {}
            THEN [res |-> None, scope |-> sc, relock |-> TRUE]
        ELSE IF j # 0 THEN Looked(Some(sc[i].functions[j]), sc)
        ELSE IF i > 1 THEN get_function(st, sc, i - 1, name)
        ELSE Looked(None, sc)

\* Scope::symbol_exists: the three lookups in turn, each on the chain the
\* one before left
symbol_exists(st, sc, name) ==
    LET v == get_variable(st, sc, Len(sc), name) IN
    IF IsSome(v.res) THEN [res |-> TRUE, scope |-> v.scope, relock |-> FALSE]
    ELSE LET f == get_function(st, v.scope, Len(sc), name) IN
        IF f.relock \/ IsSome(f.res)
            THEN [res |-> TRUE, scope |-> f.scope, relock |-> f.relock]
        ELSE LET c == get_class(st, f.scope, Len(sc), name) IN
            [res |-> IsSome(c.res), scope |-> c.scope, relock |-> FALSE]

\* ------------------------------------------------------------------- nodes
Decimal(v) == [k |-> "Decimal", v |-> v]
String(v) == [k |-> "String", v |-> v]
VariableCall(v) == [k |-> "VariableCall", v |-> v]
This == [k |-> "This", v |-> "self"]
BinaryOperation(lhs, op, rhs) ==
    [k |-> "BinaryOperation", lhs |-> lhs, op |-> op, rhs |-> rhs]
VariableDefinition(var_type, name, data_type, value) ==
    [k |-> "VariableDefinition", var_type |-> var_type, name |-> name,
     data_type |-> data_type, value |-> value]
FunctionDefinitionParameter(name, data_type) == [name |-> name, data_type |-> data_type]
FunctionDefinition(name, return_type, params, body, constructor) ==
    [k |-> "FunctionDefinition", name |-> name, return_type |-> return_type,
     params |-> params, body |-> body, constructor |-> constructor]
Return(value) == [k |-> "Return", value |-> value]
FunctionCall(name, params) == [k |-> "FunctionCall", name |-> name, params |-> params]
Include(path) == [k |-> "Include", path |-> path]
ClassDefinition(name, body) == [k |-> "ClassDefinition", name |-> name, body |-> body]

IsValue(node) == node.k \in {"Decimal", "String", "VariableCall", "This"}

\* ------------------------------------------------------- the node checkers
\* What a checker returns: out is "ok", "panic" (the process aborts) or
\* "relock" (the thread locks a mutex it holds: the call never returns).
Ok(st, info, ast) == [out |-> "ok", st |-> st, info |-> info, ast |-> ast]
Panic(st) == [out |-> "panic", st |-> st, info |-> NodeInfo(None, None), ast |-> <<>>]
Relock(st) == [out |-> "relock", st |-> st, info |-> NodeInfo(None, None), ast |-> <<>>]
Stop(r) == [out |-> r.out, st |-> r.st, info |-> NodeInfo(None, None), ast |-> <<>>]

Top(st) == Len(st.scope)

\* infer_and_check that writes the expected type into a variable symbol
\* that already has one
infer_and_check_overwrite(st, node_info, other) ==
    LET typed == IF IsSome(node_info.data_type) THEN node_info.data_type
                 ELSE IF IsSome(node_info.symbol) /\ Unwrap(node_info.symbol).k = "Variable"
                     THEN st.vars[Unwrap(node_info.symbol).id].data_type
                 ELSE None
        written == IF IsSome(node_info.symbol) /\ Unwrap(node_info.symbol).k = "Variable"
                   THEN [st EXCEPT !.vars[Unwrap(node_info.symbol).id].data_type = Some(other)]
                   ELSE st
    IN IF IsSome(typed) /\ check_data_type(other, Unwrap(typed))
           THEN [out |-> "ok", st |-> written, dt |-> other]
           ELSE [out |-> "panic", st |-> st, dt |-> other]

\* Checker::infer_and_check; returns out, st and the type dt.
\* The guard of `if let Some(..) = variable.lock().unwrap().data_type.clone()`
\* is a temporary of the scrutinee: with st.rescope (edition 2024) it is dropped
\* before the else block, otherwise it is still held there and the second
\* lock() never returns.
infer_and_check(st, node_info, other) ==
    IF IsSome(node_info.data_type) THEN
        IF check_data_type(other, Unwrap(node_info.data_type))
            THEN [out |-> "ok", st |-> st, dt |-> other]
            ELSE [out |-> "panic", st |-> st, dt |-> other]
    ELSE IF IsSome(node_info.symbol) THEN
        LET symbol == Unwrap(node_info.symbol) IN
        IF symbol.k = "Variable" THEN
            LET variable == st.vars[symbol.id] IN
            IF IsSome(variable.data_type) THEN
                IF check_data_type(other, Unwrap(variable.data_type))
                    THEN [out |-> "ok", st |-> st, dt |-> other]
                    ELSE [out |-> "panic", st |-> st, dt |-> other]
            ELSE IF st.rescope THEN
                [out |-> "ok",
                 st |-> [st EXCEPT !.vars[symbol.id].data_type = Some(other)],
                 dt |-> other]
            ELSE [out |-> "relock", st |-> st, dt |-> other]
        ELSE [out |-> "panic", st |-> st, dt |-> other]
    ELSE [out |-> "panic", st |-> st, dt |-> other]

\* Checker::infer_and_check2
infer_and_check2(st, node_info, other) ==
    IF IsSome(other.data_type) THEN
        infer_and_check(st, node_info, Unwrap(other.data_type))
    ELSE IF IsSome(node_info.data_type) THEN
        infer_and_check(st, other, Unwrap(node_info.data_type))
    ELSE [out |-> "panic", st |-> st, dt |-> Void]

\* Checker::check_value
check_value(st, value_node) ==
    CASE value_node.k = "Decimal" ->
            Ok(st, NodeInfo(Some(CDecimal), None), <<value_node>>)
      [] value_node.k = "String" ->
            Ok(st, NodeInfo(Some(CString), None), <<value_node>>)
      [] value_node.k = "VariableCall" ->
            LET v == get_variable(st, st.scope, Top(st), value_node.v) IN
            IF IsSome(v.res) THEN
                Ok([st EXCEPT !.scope = v.scope],
                   NodeInfo(st.vars[Unwrap(v.res)].data_type,
                            Some(SymVariable(Unwrap(v.res)))),
                   <<VariableCall(value_node.v)>>)
            ELSE LET c == get_class(st, v.scope, Top(st), value_node.v) IN
                IF IsSome(c.res) THEN
                    Ok([st EXCEPT !.scope = c.scope],
                       NodeInfo(Some(Custom(value_node.v)), Some(SymClass(Unwrap(c.res)))),
                       <<VariableCall(value_node.v)>>)
                ELSE Panic([st EXCEPT !.scope = c.scope])
      [] value_node.k = "This" ->
            LET v == get_variable(st, st.scope, Top(st), "self") IN
            IF IsSome(v.res) THEN
                Ok([st EXCEPT !.scope = v.scope],
                   NodeInfo(st.vars[Unwrap(v.res)].data_type,
                            Some(SymVariable(Unwrap(v.res)))),
                   <<This>>)
            ELSE Panic([st EXCEPT !.scope = v.scope])

\* PushParams that binds the parameters as mutable variables
RECURSIVE PushParamsMutable(_, _, _)
PushParamsMutable(st, params, n) ==
    IF n > Len(params) THEN st
    ELSE LET id == Len(st.vars) + 1 IN
        PushParamsMutable(
            [st EXCEPT
                !.vars = Append(@, VariableSymbol("Variable", params[n].name,
                                    Some(Custom(params[n].data_type)), TRUE)),
                !.scope[Top(st)].variables = Append(@, id)],
            params, n + 1)

\* the part of Checker::check_function_definition before the body loop:
\* duplicate and nesting checks, the symbol, and for a body the new scope with
\* its parameters
RECURSIVE PushParams(_, _, _)
PushParams(st, params, n) ==
    IF n > Len(params) THEN st
    ELSE LET id == Len(st.vars) + 1 IN
        PushParams(
            [st EXCEPT
                !.vars = Append(@, VariableSymbol("Constant", params[n].name,
                                    Some(Custom(params[n].data_type)), TRUE)),
                !.scope[Top(st)].variables = Append(@, id)],
            params, n + 1)

ReturnType(node) ==
    IF IsSome(node.return_type) THEN Custom(Unwrap(node.return_type)) ELSE Void

\* function_definition_enter without the test for an enclosing function
function_definition_enter_nested(st, node) ==
    LET f == get_function(st, st.scope, Top(st), node.name)
        st1 == [st EXCEPT !.scope = f.scope]
    IN
    IF f.relock THEN Relock(st1)
    ELSE IF IsSome(f.res) THEN Panic(st1)
    ELSE
        LET data_type == ReturnType(node)
            id == Len(st1.funs) + 1
            st2 == [st1 EXCEPT
                      !.funs = Append(@, FunctionSymbol(node.name, data_type,
                                                        "Function", node.params)),
                      !.scope[Top(st1)].functions = Append(@, id)]
        IN
        IF ~IsSome(node.body) THEN Ok(st2, NodeInfo(Some(Void), None), <<>>)
        ELSE
            LET st3 == [st2 EXCEPT
                          !.scope = Append(@, NewScope(FunctionType(node.name, data_type)))]
            IN Ok(PushParams(st3, node.params, 1), NodeInfo(Some(Void), None), <<>>)

\* function_definition_enter that leaves the registration of the symbol to
\* the end of the body
function_definition_enter_late(st, node) ==
    LET f == get_function(st, st.scope, Top(st), node.name)
        st1 == [st EXCEPT !.scope = f.scope]
    IN
    IF f.relock THEN Relock(st1)
    ELSE IF IsSome(f.res) THEN Panic(st1)
    ELSE IF st1.scope[Top(st1)].scope.k = "Function" THEN Panic(st1)
    ELSE IF ~IsSome(node.body) THEN Ok(st1, NodeInfo(Some(Void), None), <<>>)
    ELSE
        LET st3 == [st1 EXCEPT
                      !.scope = Append(@, NewScope(FunctionType(node.name,
                                                                ReturnType(node))))]
        IN Ok(PushParams(st3, node.params, 1), NodeInfo(Some(Void), None), <<>>)

function_definition_enter(st, node) ==
    LET f == get_function(st, st.scope, Top(st), node.name)
        st1 == [st EXCEPT !.scope = f.scope]
    IN
    IF f.relock THEN Relock(st1)
    ELSE IF IsSome(f.res) THEN Panic(st1)
    ELSE IF st1.scope[Top(st1)].scope.k = "Function" THEN Panic(st1)
    ELSE
        LET data_type == ReturnType(node)
            function_type == IF ~IsSome(node.body) THEN "ExternalFunction"
                             ELSE IF node.constructor THEN "Constructor"
                             ELSE "Function"
            id == Len(st1.funs) + 1
            st2 == [st1 EXCEPT
                      !.funs = Append(@, FunctionSymbol(node.name, data_type,
                                                        function_type, node.params)),
                      !.scope[Top(st1)].functions = Append(@, id)]
        IN
        IF ~IsSome(node.body) THEN Ok(st2, NodeInfo(Some(Void), None), <<>>)
        ELSE
            LET st3 == [st2 EXCEPT
                          !.scope = Append(@, NewScope(FunctionType(node.name, data_type)))]
            IN Ok(PushParams(st3, node.params, 1), NodeInfo(Some(Void), None), <<>>)

\* the rewritten definition check_function_definition returns
function_definition_ast(node, new_body) ==
    FunctionDefinition(node.name, Some(to_string(ReturnType(node))), node.params,
                       new_body, node.constructor)

\* bad_target that lets an initialized constant be assigned again
bad_target_lax(st, lhs_info) ==
    /\ IsSome(lhs_info.symbol)
    /\ Unwrap(lhs_info.symbol).k \in {"Function", "Class"}

\* the target check of check_assignment: a function, a class or an
\* initialized constant cannot be assigned
bad_target(st, lhs_info) ==
    /\ IsSome(lhs_info.symbol)
    /\ LET symbol == Unwrap(lhs_info.symbol) IN
       \/ symbol.k \in {"Function", "Class"}
       \/ /\ symbol.k = "Variable"
          /\ st.vars[symbol.id].var_type = "Constant"
          /\ st.vars[symbol.id].initialized

RECURSIVE check_node(_, _)
RECURSIVE check_function_call_params(_, _, _, _, _)

\* check_assignment that leaves the target's initialized flag as it was
check_assignment_unmarked(st, lhs, op, rhs) ==
    LET l == check_node(st, lhs) IN
    IF l.out # "ok" THEN Stop(l) ELSE
    LET r == check_node(l.st, rhs) IN
    IF r.out # "ok" THEN Stop(r)
    ELSE IF bad_target(r.st, l.info) THEN Panic(r.st) ELSE
    LET t == infer_and_check2(r.st, l.info, r.info) IN
    IF t.out # "ok" THEN Stop(t)
    ELSE IF Len(l.ast) = 0 \/ Len(r.ast) = 0 THEN Panic(t.st)
    ELSE Ok(t.st, NodeInfo(Some(t.dt), None),
            <<BinaryOperation(l.ast[1], op, r.ast[1])>>)

\* Checker::check_assignment
check_assignment(st, lhs, op, rhs) ==
    LET l == check_node(st, lhs) IN
    IF l.out # "ok" THEN Stop(l) ELSE
    LET r == check_node(l.st, rhs) IN
    IF r.out # "ok" THEN Stop(r) ELSE
    LET lhs_info == l.info
        rhs_info == r.info
        bad == bad_target(r.st, lhs_info)
        st1 == IF IsSome(lhs_info.symbol) /\ Unwrap(lhs_info.symbol).k = "Variable"
               THEN [r.st EXCEPT !.vars[Unwrap(lhs_info.symbol).id].initialized = TRUE]
               ELSE r.st
    IN
    IF bad THEN Panic(r.st) ELSE
    LET t == infer_and_check2(st1, lhs_info, rhs_info) IN
    IF t.out # "ok" THEN Stop(t)
    ELSE IF Len(l.ast) = 0 \/ Len(r.ast) = 0 THEN Panic(t.st)
    ELSE Ok(t.st, NodeInfo(Some(t.dt), None),
            <<BinaryOperation(l.ast[1], op, r.ast[1])>>)

\* the synthetic scope check_member_access builds from a class symbol
MemberScope(class_symbol) ==
    [NewScope(ClassType(class_symbol.name)) EXCEPT
        !.variables = class_symbol.fields,
        !.functions = class_symbol.functions]

\* Checker::check_member_access
check_member_access(st, lhs, op, rhs) ==
    LET l == check_node(st, lhs) IN
    IF l.out # "ok" THEN Stop(l)
    ELSE IF ~IsSome(l.info.symbol) THEN Panic(l.st)
    ELSE
    LET symbol == Unwrap(l.info.symbol) IN
    IF symbol.k = "Function" THEN Panic(l.st) ELSE
    LET variable_type == l.st.vars[symbol.id].data_type
        c == IF symbol.k = "Class" THEN Looked(Some(symbol.id), l.st.scope)
             ELSE IF IsSome(variable_type) /\ Unwrap(variable_type).k = "Custom"
                 THEN get_class(l.st, l.st.scope, Top(l.st), Unwrap(variable_type).name)
             ELSE Looked(None, l.st.scope)
    IN
    IF ~IsSome(c.res) THEN Panic([l.st EXCEPT !.scope = c.scope]) ELSE
    LET class_symbol == l.st.classes[Unwrap(c.res)]
        st1 == [l.st EXCEPT
                  !.scope = [c.scope EXCEPT
                               ![Top(l.st)].selected = Some(MemberScope(class_symbol))]]
        r == check_node(st1, rhs)
    IN
    IF r.out # "ok" THEN Stop(r)
    ELSE IF Len(l.ast) = 0 \/ Len(r.ast) = 0 THEN Panic(r.st)
    ELSE Ok(r.st, r.info, <<BinaryOperation(l.ast[1], op, r.ast[1])>>)

\* Checker::check_binary_operation
check_binary_operation(st, lhs, op, rhs) ==
    CASE op = "MemberAccess" -> check_member_access(st, lhs, op, rhs)
      [] op = "Assignment" -> check_assignment(st, lhs, op, rhs)
      [] OTHER -> Panic(st)

\* the loop of check_function_call over the declared parameters; returns out,
\* st and the rewritten arguments
check_function_call_params(st, function, params, index, new_params) ==
    IF index > Len(function.params) THEN
        IF Len(params) > Len(function.params)
            THEN [out |-> "panic", st |-> st, new_params |-> new_params]
            ELSE [out |-> "ok", st |-> st, new_params |-> new_params]
    ELSE IF index > Len(params) THEN
        [out |-> "panic", st |-> st, new_params |-> new_params]
    ELSE
        LET p == check_node(st, params[index]) IN
        IF p.out # "ok" THEN [out |-> p.out, st |-> p.st, new_params |-> new_params]
        ELSE
        LET t == infer_and_check(p.st, p.info, Custom(function.params[index].data_type)) IN
        IF t.out # "ok" THEN [out |-> t.out, st |-> t.st, new_params |-> new_params]
        ELSE IF Len(p.ast) = 0 THEN [out |-> "panic", st |-> t.st, new_params |-> new_params]
        ELSE check_function_call_params(t.st, function, params, index + 1,
                                        Append(new_params, p.ast[1]))

\* Checker::check_function_call: the guard of the function's record is held
\* from the lookup to the return
check_function_call(st, name, params) ==
    LET f == get_function(st, st.scope, Top(st), name)
        st1 == [st EXCEPT !.scope = f.scope]
    IN
    IF f.relock THEN Relock(st1)
    ELSE IF ~IsSome(f.res) THEN Panic(st1)
    ELSE
    LET id == Unwrap(f.res)
        function == st1.funs[id]
        ps == check_function_call_params([st1 EXCEPT !.held = @ \cup {id}],
                                         function, params, 1, <<>>)
    IN
    IF ps.out # "ok" THEN Stop(ps)
    ELSE Ok([ps.st EXCEPT !.held = @ \ {id}],
            NodeInfo(Some(function.data_type), None),
            <<FunctionCall(name, ps.new_params)>>)

\* final_type that gives a declaration without initializer and annotation
\* the type Void
final_type_void(node, value_type, inferred) ==
    IF IsSome(node.value) THEN
        IF IsSome(node.data_type) THEN
            IF IsSome(value_type) THEN Some(Custom(Unwrap(node.data_type)))
            ELSE Some(inferred)
        ELSE value_type
    ELSE IF IsSome(node.data_type) THEN Some(Custom(Unwrap(node.data_type)))
    ELSE Some(Void)

\* final_data_type of check_variable_definition, once the initializer is
\* checked: value_type is the initializer's type, inferred what
\* infer_and_check returned for an initializer without one
final_type(node, value_type, inferred) ==
    IF IsSome(node.value) THEN
        IF IsSome(node.data_type) THEN
            IF IsSome(value_type) THEN Some(Custom(Unwrap(node.data_type)))
            ELSE Some(inferred)
        ELSE value_type
    ELSE IF IsSome(node.data_type) THEN Some(Custom(Unwrap(node.data_type)))
    ELSE None

\* Checker::check_variable_definition
check_variable_definition(st, node) ==
    LET v == get_variable(st, st.scope, Top(st), node.name)
        st1 == [st EXCEPT !.scope = v.scope]
    IN
    IF IsSome(v.res) THEN Panic(st1) ELSE
    LET val == IF IsSome(node.value) THEN check_node(st1, Unwrap(node.value))
               ELSE Ok(st1, NodeInfo(None, None), <<>>)
    IN
    IF val.out # "ok" THEN Stop(val) ELSE
    LET annotated == IsSome(node.data_type)
        typed == IsSome(val.info.data_type)
        t == IF IsSome(node.value) /\ annotated /\ ~typed
             THEN infer_and_check(val.st, val.info, Custom(Unwrap(node.data_type)))
             ELSE [out |-> "ok", st |-> val.st, dt |-> Void]
        mismatch == /\ IsSome(node.value) /\ annotated /\ typed
                    /\ ~check_data_type(Unwrap(val.info.data_type),
                                        Custom(Unwrap(node.data_type)))
        uninferable == IsSome(node.value) /\ ~annotated /\ ~typed
        final_data_type == final_type(node, val.info.data_type, t.dt)
    IN
    IF mismatch \/ uninferable THEN Panic(val.st)
    ELSE IF t.out # "ok" THEN Stop(t)
    ELSE
    LET id == Len(t.st.vars) + 1
        st2 == [t.st EXCEPT
                  !.vars = Append(@, VariableSymbol(node.var_type, node.name,
                                                    final_data_type, IsSome(node.value))),
                  !.scope[Top(t.st)].variables = Append(@, id)]
    IN
    IF IsSome(final_data_type) /\ to_string_panics(Unwrap(final_data_type))
        THEN Panic(st2)
    ELSE Ok(st2, NodeInfo(Some(Void), None),
            <<VariableDefinition(node.var_type, node.name,
                  IF IsSome(final_data_type)
                      THEN Some(to_string(Unwrap(final_data_type))) ELSE None,
                  node.value)>>)

\* check_return that does not compare the value's type with the return type
check_return_unchecked(st, value) ==
    IF st.scope[Top(st)].scope.k # "Function" THEN Panic(st) ELSE
    LET v == check_node(st, value) IN
    IF v.out # "ok" THEN Stop(v)
    ELSE IF Len(v.ast) = 0 THEN Panic(v.st)
    ELSE Ok(v.st, NodeInfo(Some(Void), None), <<Return(v.ast[1])>>)

\* Checker::check_return
check_return(st, value) ==
    IF st.scope[Top(st)].scope.k # "Function" THEN Panic(st) ELSE
    LET data_type == st.scope[Top(st)].scope.data_type
        v == check_node(st, value)
    IN
    IF v.out # "ok" THEN Stop(v) ELSE
    LET t == infer_and_check(v.st, v.info, data_type) IN
    IF t.out # "ok" THEN Stop(t)
    ELSE IF Len(v.ast) = 0 THEN Panic(t.st)
    ELSE Ok(t.st, NodeInfo(Some(Void), None), <<Return(v.ast[1])>>)

\* check_include that also leaves the node where it stands
check_include_inline(st, path) ==
    Ok([st EXCEPT !.includes = Append(@, path)], NodeInfo(Some(Void), None),
       <<Include(path)>>)

\* Checker::check_include
check_include(st, path) ==
    Ok([st EXCEPT !.includes = Append(@, path)], NodeInfo(Some(Void), None), <<>>)

\* Checker::check_node, for every node whose handler has no body loop: a
\* function definition here is one without a body (extern)
check_node(st, node) ==
    CASE IsValue(node) -> check_value(st, node)
      [] node.k = "BinaryOperation" ->
            check_binary_operation(st, node.lhs, node.op, node.rhs)
      [] node.k = "VariableDefinition" -> check_variable_definition(st, node)
      [] node.k = "FunctionDefinition" ->
            LET r == function_definition_enter(st, node) IN
            IF r.out # "ok" THEN r
            ELSE Ok(r.st, r.info, <<function_definition_ast(node, None)>>)
      [] node.k = "Return" -> check_return(st, node.value)
      [] node.k = "FunctionCall" -> check_function_call(st, node.name, node.params)
      [] node.k = "Include" -> check_include(st, node.path)

\* ------------------------------------------------------------ the checker
VARIABLES
    vars,       \* arena of VariableSymbol records
    funs,       \* arena of FunctionSymbol records
    classes,    \* arena of ClassSymbol records
    scope,      \* Checker.scope and its ancestors, Root first
    includes,   \* Checker.includes
    rescope,    \* the build drops if-let scrutinee temporaries before else
    frames,     \* the body loops in progress, frames[i] runs in scope[i]
    steps,      \* nodes handed to check_node so far
    status,     \* "running", "done", "failed" (panic) or "hung" (deadlock)
    output,     \* what check() returned
    last        \* the step just taken and the node it checked

vars_ == <<vars, funs, classes, scope, includes, rescope, frames, steps, status,
           output, last>>

\* Checker.ast up to Checker.index: the top-level nodes checked so far
ast == frames[1].body
index == Len(frames[1].body)

Frame(kind, node, class) ==
    [kind |-> kind, node |-> node, class |-> class, body |-> <<>>, new_body |-> <<>>]

St == [vars |-> vars, funs |-> funs, classes |-> classes, scope |-> scope,
       includes |-> includes, held |-> {}, rescope |-> rescope]

SetChecker(st) ==
    /\ vars' = st.vars
    /\ funs' = st.funs
    /\ classes' = st.classes
    /\ scope' = st.scope
    /\ includes' = st.includes

\* Checker::new
Init ==
    /\ vars = <<>>
    /\ funs = <<>>
    /\ classes = <<>>
    /\ scope = <<NewScope(RootType)>>
    /\ includes = <<>>
    /\ rescope \in BOOLEAN
    /\ frames = <<Frame("check", None, 0)>>
    /\ steps = 0
    /\ status = "running"
    /\ output = None
    /\ last = [op |-> "new", node |-> None, out |-> "ok"]

\* Abort that drops the failed node and lets the walk go on
AbortRecover(r, op, node) ==
    /\ SetChecker(r.st)
    /\ status' = "running"
    /\ output' = None
    /\ last' = [op |-> op, node |-> Some(node), out |-> r.out]
    /\ UNCHANGED <<rescope, frames>>

\* a panic aborts the process; a relock panics or deadlocks
Abort(r, op, node) ==
    /\ SetChecker(r.st)
    /\ status' \in (IF r.out = "panic" THEN {"failed"} ELSE {"failed", "hung"})
    /\ output' = None
    /\ last' = [op |-> op, node |-> Some(node), out |-> r.out]
    /\ UNCHANGED <<rescope, frames>>

\* Deliver that gives the class a copy of the field's record
DeliverCopy(st, fr, op, in_node, res_ast) ==
    LET d == Len(fr)
        cls == fr[d].class
        field == st.scope[d].variables[Len(st.scope[d].variables)]
        st1 == IF fr[d].kind # "class" THEN st
               ELSE IF in_node.k = "VariableDefinition" THEN
                   [st EXCEPT !.vars = Append(@, st.vars[field]),
                              !.classes[cls].fields = Append(@, Len(st.vars) + 1)]
               ELSE
                   [st EXCEPT !.classes[cls].functions =
                        Append(@, st.scope[d].functions[Len(st.scope[d].functions)])]
    IN
    /\ SetChecker(st1)
    /\ frames' = [fr EXCEPT ![d].body = Append(@, in_node),
                            ![d].new_body = @ \o res_ast]
    /\ status' = "running"
    /\ output' = None
    /\ last' = [op |-> op, node |-> Some(in_node), out |-> "ok"]
    /\ UNCHANGED rescope

\* Deliver that appends the first symbol of the class scope to the class
DeliverFirst(st, fr, op, in_node, res_ast) ==
    LET d == Len(fr)
        cls == fr[d].class
        st1 == IF fr[d].kind # "class" THEN st
               ELSE IF in_node.k = "VariableDefinition" THEN
                   [st EXCEPT !.classes[cls].fields = Append(@, st.scope[d].variables[1])]
               ELSE
                   [st EXCEPT !.classes[cls].functions = Append(@, st.scope[d].functions[1])]
    IN
    /\ SetChecker(st1)
    /\ frames' = [fr EXCEPT ![d].body = Append(@, in_node),
                            ![d].new_body = @ \o res_ast]
    /\ status' = "running"
    /\ output' = None
    /\ last' = [op |-> op, node |-> Some(in_node), out |-> "ok"]
    /\ UNCHANGED rescope

\* the loop that called check_node takes the result: check() and the function
\* body loop append it; the class body loop also appends the last symbol of
\* the class scope to the class
Deliver(st, fr, op, in_node, res_ast) ==
    LET d == Len(fr)
        cls == fr[d].class
        st1 == IF fr[d].kind # "class" THEN st
               ELSE IF in_node.k = "VariableDefinition" THEN
                   [st EXCEPT !.classes[cls].fields =
                        Append(@, st.scope[d].variables[Len(st.scope[d].variables)])]
               ELSE
                   [st EXCEPT !.classes[cls].functions =
                        Append(@, st.scope[d].functions[Len(st.scope[d].functions)])]
    IN
    /\ SetChecker(st1)
    /\ frames' = [fr EXCEPT ![d].body = Append(@, in_node),
                            ![d].new_body = @ \o res_ast]
    /\ status' = "running"
    /\ output' = None
    /\ last' = [op |-> op, node |-> Some(in_node), out |-> "ok"]
    /\ UNCHANGED rescope

ClassMember(node) == node.k \in {"VariableDefinition", "FunctionDefinition"}

\* one iteration of a body loop on a node without a body of its own
CheckNode(node, max) ==
    /\ status = "running"
    /\ steps < max
    /\ steps' = steps + 1
    /\ IF frames[Len(frames)].kind = "class" /\ ~ClassMember(node)
       THEN Abort(Panic(St), "check_node", node)
       ELSE LET r == check_node(St, node) IN
            IF r.out = "ok" THEN Deliver(r.st, frames, "check_node", node, r.ast)
            ELSE Abort(r, "check_node", node)

\* check_function_definition up to its body loop
EnterFunction(node, max) ==
    /\ status = "running"
    /\ steps < max
    /\ Len(scope) < MaxDepth
    /\ steps' = steps + 1
    /\ LET r == function_definition_enter(St, node) IN
       IF r.out = "ok" THEN
           /\ SetChecker(r.st)
           /\ frames' = Append(frames, Frame("function", node, 0))
           /\ last' = [op |-> "enter_function", node |-> Some(node), out |-> "ok"]
           /\ UNCHANGED <<rescope, status, output>>
       ELSE Abort(r, "enter_function", node)

\* ExitFunction that hands the variables of the function scope to the parent
ExitFunctionLeak ==
    /\ status = "running"
    /\ frames[Len(frames)].kind = "function"
    /\ LET d == Len(frames)
           fr == frames[d]
           in_node == [fr.node EXCEPT !.body = Some(fr.body)]
           st == [St EXCEPT !.scope =
                     [SubSeq(scope, 1, d - 1) EXCEPT
                         ![d - 1].variables = @ \o scope[d].variables]]
       IN Deliver(st, SubSeq(frames, 1, d - 1), "exit_function", in_node,
                  <<function_definition_ast(fr.node, Some(fr.new_body))>>)
    /\ UNCHANGED steps

\* check_function_definition from the end of its body loop
ExitFunction ==
    /\ status = "running"
    /\ frames[Len(frames)].kind = "function"
    /\ LET d == Len(frames)
           fr == frames[d]
           in_node == [fr.node EXCEPT !.body = Some(fr.body)]
           st == [St EXCEPT !.scope = SubSeq(scope, 1, d - 1)]
       IN Deliver(st, SubSeq(frames, 1, d - 1), "exit_function", in_node,
                  <<function_definition_ast(fr.node, Some(fr.new_body))>>)
    /\ UNCHANGED steps

\* check_class_definition up to its body loop
class_definition_enter(st, name) ==
    LET e == symbol_exists(st, st.scope, name)
        st1 == [st EXCEPT !.scope = e.scope]
    IN
    IF e.relock THEN Relock(st1)
    ELSE IF e.res THEN Panic(st1)
    ELSE
        LET class == Len(st1.classes) + 1
            this == Len(st1.vars) + 1
            st2 == [st1 EXCEPT
                      !.classes = Append(@, ClassSymbol(name)),
                      !.scope[Top(st1)].classes = Append(@, class)]
            st3 == [st2 EXCEPT
                      !.scope = Append(@, [NewScope(ClassType(name)) EXCEPT
                                              !.variables = <<this>>]),
                      !.vars = Append(@, VariableSymbol("Constant", "self",
                                                        Some(Custom(name)), TRUE))]
        IN Ok(st3, NodeInfo(Some(Void), None), <<>>)

EnterClass(name, max) ==
    /\ status = "running"
    /\ steps < max
    /\ Len(scope) < MaxDepth
    /\ steps' = steps + 1
    /\ LET node == ClassDefinition(name, <<>>)
           r == IF frames[Len(frames)].kind = "class" THEN Panic(St)
                ELSE class_definition_enter(St, name)
       IN
       IF r.out = "ok" THEN
           /\ SetChecker(r.st)
           /\ frames' = Append(frames, Frame("class", node, Len(classes) + 1))
           /\ last' = [op |-> "enter_class", node |-> Some(node), out |-> "ok"]
           /\ UNCHANGED <<rescope, status, output>>
       ELSE Abort(r, "enter_class", node)

\* check_class_definition from the end of its body loop
ExitClass ==
    /\ status = "running"
    /\ frames[Len(frames)].kind = "class"
    /\ LET d == Len(frames)
           fr == frames[d]
           st == [St EXCEPT !.scope = SubSeq(scope, 1, d - 1)]
       IN Deliver(st, SubSeq(frames, 1, d - 1), "exit_class",
                  ClassDefinition(fr.node.name, fr.body),
                  <<ClassDefinition(fr.node.name, fr.new_body)>>)
    /\ UNCHANGED steps

\* the end of Checker::check: the includes, then the rewritten nodes
IncludeNodes(paths) == [n \in 1..Len(paths) |-> Include(paths[n])]

Finish ==
    /\ status = "running"
    /\ Len(frames) = 1
    /\ status' = "done"
    /\ output' = Some(IncludeNodes(includes) \o frames[1].new_body)
    /\ last' = [op |-> "check", node |-> None, out |-> "ok"]
    /\ UNCHANGED <<vars, funs, classes, scope, includes, rescope, frames, steps>>

\* ------------------------------------------------- the nodes of the walk
\* One step of a walk of at most max nodes over the nodes S, the function
\* definitions with a body F and the class names K
Step(S, F, K, max) ==
    \/ \E node \in S : CheckNode(node, max)
    \/ \E node \in F : EnterFunction(node, max)
    \/ ExitFunction
    \/ \E name \in K : EnterClass(name, max)
    \/ ExitClass
    \/ Finish

Param(name, data_type) == FunctionDefinitionParameter(name, data_type)
Extern(name, return_type, params) ==
    FunctionDefinition(name, return_type, params, None, FALSE)
Fn(name, return_type, params) ==
    FunctionDefinition(name, return_type, params, Some(<<>>), FALSE)
Assign(lhs, rhs) == BinaryOperation(lhs, "Assignment", rhs)
Member(lhs, rhs) == BinaryOperation(lhs, "MemberAccess", rhs)

\* Declarations, includes and statements over the name x
Statements ==
    {VariableDefinition("Variable", "x", d, v) :
        d \in {None, Some("c_int")}, v \in {None, Some(Decimal("5"))}}
    \cup {Extern("x", None, <<>>)}
    \cup {Include("p"), Include("q")}
    \cup {VariableCall("x"), Return(VariableCall("x"))}
FunctionHeads == {Fn("f", Some("c_int"), <<>>)}
ClassNames == {"x", "C"}

Next == Step(Statements, FunctionHeads, ClassNames, MaxNodes)

Spec == Init /\ [][Next]_vars_

\* Classes and their members: a class C, a name x that is declared as a
\* constant or as a variable at any level, accessed bare and through C, with
\* an identifier, a class name or a literal right of the dot
MemberStatements ==
    {VariableDefinition(t, "x", None, Some(Decimal("5"))) : t \in {"Constant", "Variable"}}
    \cup {Assign(VariableCall("x"), Decimal("7")),
          Assign(Member(VariableCall("C"), VariableCall("x")), Decimal("7"))}
    \cup {Member(VariableCall("C"), r) :
            r \in {VariableCall("x"), VariableCall("C"), Decimal("5")}}
    \cup {VariableCall("x")}
MemberFunctionHeads == {Fn("f", None, <<>>)}
MemberClassNames == {"C"}

NextMember ==
    Step(MemberStatements, MemberFunctionHeads, MemberClassNames, MaxMemberNodes)

SpecMember == Init /\ [][NextMember]_vars_

\* Calls of the externs f (one parameter), g (two) and h (a string
\* parameter), and uses of an inferred variable x
Five == Decimal("5")
CallStatements ==
    {VariableDefinition("Variable", "x", None, Some(Five))}
    \cup {Extern("f", Some("c_int"), <<Param("a", "c_int")>>),
          Extern("g", Some("c_int"), <<Param("a", "c_int"), Param("b", "c_double")>>),
          Extern("h", Some("c_int"), <<Param("a", "c_string")>>)}
    \cup {FunctionCall("f", ps) : ps \in {<<>>, <<Five>>, <<Five, Five>>}}
    \cup {FunctionCall("g", ps) : ps \in {<<Five>>, <<Five, Five>>, <<Five, Five, Five>>}}
    \cup {FunctionCall("f", <<FunctionCall("f", <<Five>>)>>)}
    \cup {FunctionCall(n, <<VariableCall("x")>>) : n \in {"f", "h"}}
    \cup {VariableDefinition("Variable", "y", Some(t), Some(VariableCall("x"))) :
            t \in {"c_int", "c_double", "c_string"}}
    \cup {Assign(VariableCall("x"), String("s"))}
CallFunctionHeads == {Fn("m", None, <<>>)}
CallClassNames == {"C"}

NextCall == Step(CallStatements, CallFunctionHeads, CallClassNames, MaxCallNodes)

SpecCall == Init /\ [][NextCall]_vars_

\* Assignments by the kind of their target: a variable, a class, a call
\* result, a literal
TargetStatements ==
    {VariableDefinition("Variable", "x", None, Some(Five)),
     Extern("f", Some("c_int"), <<>>)}
    \cup {Assign(lhs, Decimal("7")) :
            lhs \in {VariableCall("x"), VariableCall("C"), FunctionCall("f", <<>>), Five}}
TargetFunctionHeads == {Fn("m", None, <<>>)}
TargetClassNames == {"C"}

NextTarget ==
    Step(TargetStatements, TargetFunctionHeads, TargetClassNames, MaxTargetNodes)

SpecTarget == Init /\ [][NextTarget]_vars_

\* A class C with a field x (a constant without initializer, or an untyped
\* variable), a method m that assigns it by bare name and through self, and
\* an instance i outside the class, assigned through i and through C
FieldStatements ==
    {VariableDefinition("Constant", "x", Some("c_int"), None),
     VariableDefinition("Variable", "x", None, None),
     VariableDefinition("Variable", "i", Some("C"), None)}
    \cup {Assign(VariableCall("x"), Five), Assign(Member(This, VariableCall("x")), Five)}
    \cup {Assign(Member(VariableCall(n), VariableCall("x")), Decimal("7")) : n \in {"i", "C"}}
FieldFunctionHeads == {Fn("m", None, <<Param("a", "c_int")>>)}
FieldClassNames == {"C"}

NextField == Step(FieldStatements, FieldFunctionHeads, FieldClassNames, MaxFieldNodes)

SpecField == Init /\ [][NextField]_vars_

\* Typed values met by typed places: the literals and the c_long variable d,
\* assigned to the c_int variable a and passed to g (a c_int parameter) and
\* h (a c_string parameter)
TypeValues == {Five, String("s"), VariableCall("d")}
TypeStatements ==
    {VariableDefinition("Variable", "a", Some("c_int"), None),
     VariableDefinition("Variable", "d", Some("c_long"), None),
     Extern("g", None, <<Param("p", "c_int")>>),
     Extern("h", None, <<Param("p", "c_string")>>)}
    \cup {Assign(VariableCall("a"), e) : e \in TypeValues}
    \cup {FunctionCall(n, <<e>>) : n \in {"g", "h"}, e \in TypeValues}
TypeFunctionHeads == {Fn("m", None, <<>>)}
TypeClassNames == {"C"}

NextType == Step(TypeStatements, TypeFunctionHeads, TypeClassNames, MaxTypeNodes)

SpecType == Init /\ [][NextType]_vars_

\* Returns of a literal, a string and the variables x (inferred or
\* untyped) and s, at every level and in the functions f (returns c_int)
\* and g (returns nothing); the extern e declared at every level
ReturnStatements ==
    {VariableDefinition("Variable", "x", None, Some(Five)),
     VariableDefinition("Variable", "x", None, None),
     VariableDefinition("Variable", "s", Some("c_string"), None),
     Extern("e", None, <<>>),
     Assign(VariableCall("x"), Five)}
    \cup {Return(v) : v \in {Five, String("s"), VariableCall("x"), VariableCall("s")}}
ReturnFunctionHeads == {Fn("f", Some("c_int"), <<>>), Fn("g", None, <<>>)}
ReturnClassNames == {"C"}

NextReturn ==
    Step(ReturnStatements, ReturnFunctionHeads, ReturnClassNames, MaxReturnNodes)

SpecReturn == Init /\ [][NextReturn]_vars_

\* Declarations without annotation, by the kind of their initializer: a
\* numeric literal, a quoted literal, a variable, a class name, the result
\* of a call
InitValues ==
    {Five, String("s"), VariableCall("x"), VariableCall("C"), FunctionCall("e", <<>>)}
InitStatements ==
    {VariableDefinition("Variable", "x", None, Some(Five)),
     Extern("e", Some("c_int"), <<>>)}
    \cup {VariableDefinition(t, "y", None, Some(v)) :
            t \in {"Constant", "Variable"}, v \in InitValues}
InitFunctionHeads == {Fn("m", None, <<>>)}
InitClassNames == {"C"}

NextInit == Step(InitStatements, InitFunctionHeads, InitClassNames, MaxInitNodes)

SpecInit == Init /\ [][NextInit]_vars_

\* A function m with a parameter a, at root or as a method of class C, called
\* from its own body by bare name and through self; a variable a declared at
\* any level, assigned, and a literal right of the dot of C
MethodStatements ==
    {VariableDefinition("Variable", "a", None, Some(Five)),
     FunctionCall("m", <<Five>>),
     FunctionCall("m", <<>>),
     Member(This, FunctionCall("m", <<Five>>)),
     Assign(VariableCall("a"), Five),
     Member(VariableCall("C"), Five)}
MethodFunctionHeads == {Fn("m", Some("c_int"), <<Param("a", "c_int")>>)}
MethodClassNames == {"C"}

NextMethod ==
    Step(MethodStatements, MethodFunctionHeads, MethodClassNames, MaxMethodNodes)

SpecMethod == Init /\ [][NextMethod]_vars_

\* ------------------------------------------------------------ properties
Node == Unwrap(last.node)
IsDeclaration(node) ==
    node.k \in {"VariableDefinition", "FunctionDefinition", "ClassDefinition"}
Checked == last.op \in {"check_node", "enter_function", "enter_class"}

\* name is bound to a variable, a function or a class in the current scope
\* or in one of its ancestors
Bound(arena, ids, name) == \E j \in 1..Len(ids) : arena[ids[j]].name = name
Resolvable(name) ==
    \E i \in 1..Len(scope) :
        \/ Bound(vars, scope[i].variables, name)
        \/ Bound(funs, scope[i].functions, name)
        \/ Bound(classes, scope[i].classes, name)

\* C1: checking a declaration (variable, function or class) whose name the
\* scope chain already binds, as a variable, a function or a class, fails
\* and registers no symbol.
C1_NoShadowing ==
    [][(Checked' /\ IsDeclaration(Node') /\ Resolvable(Node'.name))
        => (status' # "running" /\ vars' = vars /\ funs' = funs
            /\ classes' = classes)]_vars_

\* The names of the nodes of a sequence, function and class bodies included,
\* in the order of the walk
RECURSIVE IncludePaths(_)
IncludePaths(nodes) ==
    IF Len(nodes) = 0 THEN <<>>
    ELSE LET node == Head(nodes)
             here == CASE node.k = "Include" -> <<node.path>>
                       [] node.k = "FunctionDefinition" /\ IsSome(node.body) ->
                              IncludePaths(Unwrap(node.body))
                       [] node.k = "ClassDefinition" -> IncludePaths(node.body)
                       [] OTHER -> <<>>
         IN here \o IncludePaths(Tail(nodes))

\* a node without its includes and without the types of its declarations
RECURSIVE Bare(_)
BareAll(nodes) ==
    LET kept == SelectSeq(nodes, LAMBDA n : n.k # "Include")
    IN [i \in 1..Len(kept) |-> Bare(kept[i])]
Bare(node) ==
    CASE node.k = "VariableDefinition" -> [node EXCEPT !.data_type = None]
      [] node.k = "FunctionDefinition" ->
            [node EXCEPT !.return_type = None,
                         !.body = IF IsSome(@) THEN Some(BareAll(Unwrap(@))) ELSE None]
      [] node.k = "ClassDefinition" -> [node EXCEPT !.body = BareAll(@)]
      [] OTHER -> node

RECURSIVE HasInclude(_)
HasInclude(node) ==
    CASE node.k = "Include" -> TRUE
      [] node.k = "FunctionDefinition" /\ IsSome(node.body) ->
            \E i \in 1..Len(Unwrap(node.body)) : HasInclude(Unwrap(node.body)[i])
      [] node.k = "ClassDefinition" ->
            \E i \in 1..Len(node.body) : HasInclude(node.body[i])
      [] OTHER -> FALSE

\* C7: what check() returns is every include met, at top level or in a
\* function body, in the order met, then the rewritten top-level nodes that
\* are no includes, in their order; no include stands anywhere else, none is
\* lost and none is doubled.
C7_IncludesHoisted ==
    status = "done" =>
        LET out == Unwrap(output)
            paths == IncludePaths(ast)
            n == Len(paths)
            rest == SubSeq(out, n + 1, Len(out))
        IN /\ Len(out) >= n
           /\ SubSeq(out, 1, n) = [i \in 1..n |-> Include(paths[i])]
           /\ \A i \in 1..Len(rest) : ~HasInclude(rest[i])
           /\ BareAll(rest) = BareAll(ast)

\* check() returned with includes of a function body and of the top level,
\* the top-level one after another node
C7_Witness ==
    /\ status = "done"
    /\ \E i \in 1..Len(ast) :
           /\ ast[i].k = "FunctionDefinition"
           /\ HasInclude(ast[i])
           /\ \E j \in (i + 1)..Len(ast) : ast[j].k = "Include"
    /\ Len(Unwrap(output)) > Len(includes)
    /\ Len(includes) >= 2

\* every declaration of the nodes carries a type, bodies included
RECURSIVE Typed(_)
Typed(node) ==
    CASE node.k = "VariableDefinition" -> IsSome(node.data_type)
      [] node.k = "FunctionDefinition" ->
            /\ IsSome(node.return_type)
            /\ IsSome(node.body) =>
                   \A i \in 1..Len(Unwrap(node.body)) : Typed(Unwrap(node.body)[i])
      [] node.k = "ClassDefinition" ->
            \A i \in 1..Len(node.body) : Typed(node.body[i])
      [] OTHER -> TRUE

\* C8: in what check() returns every variable declaration and every function
\* definition, at every depth, carries a type.
C8_DeclarationsTyped ==
    status = "done" => \A i \in 1..Len(Unwrap(output)) : Typed(Unwrap(output)[i])

\* C9: the first node whose check fails ends the pass: no step follows it
\* and check() returns nothing, not even the nodes rewritten before.
C9_FailFast ==
    [][/\ status = "running"
       /\ last'.out # "ok" => (status' \in {"failed", "hung"} /\ output' = None)
       /\ status' \in {"failed", "hung"} => last'.out # "ok"]_vars_

\* a node failed after other nodes had been rewritten
C9_Witness ==
    /\ status = "failed"
    /\ Len(frames[1].new_body) > 0
    /\ Len(frames) > 1
    /\ output = None

Untyped(node) ==
    node.k = "VariableDefinition" /\ ~IsSome(node.value) /\ ~IsSome(node.data_type)

IsAssignment(node) == node.k = "BinaryOperation" /\ node.op = "Assignment"
IsMemberAccess(node) == node.k = "BinaryOperation" /\ node.op = "MemberAccess"
InClassBody == frames[Len(frames)].kind = "class"

\* C2: an assignment whose target resolves to a constant that is initialized
\* (declared with an initializer) is rejected, in the declaring scope and in
\* every scope nested in it; the same assignment to a mutable variable, with
\* a value of a compatible type, is accepted and marks it initialized.
C2_ConstantsKept ==
    [][(last'.op = "check_node" /\ IsAssignment(Node'))
        => LET node == Node'
               l == check_node(St, node.lhs)
               r == check_node(l.st, node.rhs)
               id == Unwrap(l.info.symbol).id
               v == vars[id]
           IN (l.out = "ok" /\ IsSome(l.info.symbol)
                 /\ Unwrap(l.info.symbol).k = "Variable")
              => /\ (v.var_type = "Constant" /\ v.initialized) => status' = "failed"
                 /\ (/\ v.var_type = "Variable"
                     /\ ~InClassBody
                     /\ r.out = "ok"
                     /\ IsSome(v.data_type) /\ IsSome(r.info.data_type)
                     /\ check_data_type(Unwrap(r.info.data_type), Unwrap(v.data_type)))
                    => (status' = "running" /\ vars'[id].initialized)]_vars_

\* a constant declared with an initializer outside a function was assigned
\* in the function's body, and the assignment was rejected
C2_Witness ==
    /\ status = "failed"
    /\ last.op = "check_node"
    /\ Node = Assign(VariableCall("x"), Decimal("7"))
    /\ Len(scope) > 1
    /\ scope[Len(scope)].scope.k = "Function"
    /\ \E i \in 1..(Len(scope) - 1) : \E j \in 1..Len(scope[i].variables) :
           LET v == vars[scope[i].variables[j]]
           IN v.name = "x" /\ v.var_type = "Constant" /\ v.initialized

\* the scopes a plain walk for name visits from the current scope upwards,
\* among the tables ids(i) of the arena: the walk stops at an override and
\* at a hit
Visited(arena, ids(_), name) ==
    {i \in 1..Len(scope) :
        \A k \in (i + 1)..Len(scope) :
            ~IsSome(scope[k].selected) /\ ~Bound(arena, ids(k), name)}
Consulted(arena, ids(_), name) ==
    {i \in Visited(arena, ids, name) : IsSome(scope[i].selected)}
\* looked is the chain a lookup for name left: every override the walk met
\* is gone and nothing else changed
Cleared(looked, arena, ids(_), name) ==
    \A i \in 1..Len(scope) :
        looked[i] = IF i \in Consulted(arena, ids, name)
                    THEN [scope[i] EXCEPT !.selected = None] ELSE scope[i]
LookupNames == {"x", "C", "f", "self"}
OneShot ==
    \A name \in LookupNames :
        /\ Cleared(get_variable(St, scope, Len(scope), name).scope,
                   vars, LAMBDA i : scope[i].variables, name)
        /\ Cleared(get_function(St, scope, Len(scope), name).scope,
                   funs, LAMBDA i : scope[i].functions, name)
        /\ Cleared(get_class(St, scope, Len(scope), name).scope,
                   classes, LAMBDA i : scope[i].classes, name)

AccessByName(node) == IsMemberAccess(node) /\ node.rhs.k = "VariableCall"

\* C3: the override is one-shot. When a member access a.b (b a name) has
\* been checked, alone or as the target of an assignment, the current scope
\* holds no override and no scope holds one it did not hold before, so the
\* next bare reference to b starts at the local table; and in every state a
\* lookup that meets an override clears it, on a hit and on a miss, and
\* changes nothing else.
C3_OneShotOverride ==
    [][/\ (/\ last'.op = "check_node"
           /\ status' = "running"
           /\ \/ AccessByName(Node')
              \/ IsAssignment(Node') /\ AccessByName(Node'.lhs) /\ IsValue(Node'.rhs))
          => /\ ~IsSome(scope'[Len(scope')].selected)
             /\ \A i \in 1..Len(scope') :
                    IsSome(scope'[i].selected) => scope'[i].selected = scope[i].selected
       /\ OneShot']_vars_

\* the member access C.x was checked and the bare x that follows it in the
\* same body was then resolved, leaving no override on the current scope
C3_Witness ==
    /\ status = "running"
    /\ LET body == frames[Len(frames)].body
           n == Len(body)
       IN /\ n >= 2
          /\ body[n] = VariableCall("x")
          /\ body[n - 1] = Member(VariableCall("C"), VariableCall("x"))
    /\ ~IsSome(scope[Len(scope)].selected)

NameOfClass(st, info) ==
    LET symbol == Unwrap(info.symbol) IN
    IF symbol.k = "Class" THEN Some(st.classes[symbol.id].name)
    ELSE IF symbol.k = "Variable" /\ IsSome(st.vars[symbol.id].data_type)
            /\ Unwrap(st.vars[symbol.id].data_type).k = "Custom"
        THEN Some(Unwrap(st.vars[symbol.id].data_type).name)
    ELSE None

\* C4: when lhs.rhs is checked and the name rhs is no field of the class of
\* lhs, the member access fails: rhs is never resolved to a variable or a
\* class of the enclosing scopes.
C4_MembersOnly ==
    [][(last'.op = "check_node" /\ AccessByName(Node'))
        => LET node == Node'
               l == check_node(St, node.lhs)
               cn == NameOfClass(l.st, l.info)
               c == get_class(l.st, l.st.scope, Len(l.st.scope), Unwrap(cn))
           IN (l.out = "ok" /\ IsSome(l.info.symbol) /\ IsSome(cn) /\ IsSome(c.res)
                 /\ ~Bound(vars, classes[Unwrap(c.res)].fields, node.rhs.v))
              => status' # "running"]_vars_

\* C5: for a function declared with n parameters, a call with k arguments
\* fails when k < n and when k > n; when k = n and every argument, checked on
\* its own, has a type compatible with the parameter at its position, the
\* call succeeds and its type is the function's declared return type.
C5_Arity ==
    [][(last'.op = "check_node" /\ Node'.k = "FunctionCall" /\ ~InClassBody)
        => LET node == Node'
               f == get_function(St, scope, Len(scope), node.name)
               function == funs[Unwrap(f.res)]
               n == Len(function.params)
               k == Len(node.params)
               call == check_node(St, node)
               Compatible(i) ==
                   LET p == check_node(St, node.params[i])
                   IN /\ p.out = "ok"
                      /\ IsSome(p.info.data_type)
                      /\ check_data_type(Unwrap(p.info.data_type),
                                         Custom(function.params[i].data_type))
           IN IsSome(f.res)
              => /\ k < n => status' # "running"
                 /\ k > n => status' # "running"
                 /\ (k = n /\ \A i \in 1..n : Compatible(i))
                    => /\ status' = "running"
                       /\ call.out = "ok"
                       /\ call.info.data_type = Some(function.data_type)]_vars_

\* name resolves to a variable whose type was inferred from a decimal literal
DecimalVariable(name) ==
    LET v == get_variable(St, scope, Len(scope), name)
    IN IsSome(v.res) /\ vars[Unwrap(v.res)].data_type = Some(CDecimal)

\* C6: once var x = 5 is checked, x has the decimal type. A later use of x
\* where a numeric alias is expected (the annotation of a fresh variable it
\* initializes, the parameter of a function it is passed to) succeeds; a use
\* where the string alias is expected, and the assignment of a string
\* literal to x, fail. The decimal type matches each of the six numeric
\* aliases in both directions and neither the string type nor its alias.
C6_InferredNumeric ==
    [][/\ (last'.op = "check_node" /\ DecimalVariable("x"))
          => LET node == Node'
                 f == get_function(St, scope, Len(scope), node.name)
                 function == funs[Unwrap(f.res)]
             IN /\ (/\ node.k = "VariableDefinition"
                    /\ node.value = Some(VariableCall("x"))
                    /\ IsSome(node.data_type)
                    /\ ~IsSome(get_variable(St, scope, Len(scope), node.name).res))
                   => (status' = "running"
                         <=> Unwrap(node.data_type) \in NumericAliases)
                /\ (/\ node.k = "FunctionCall"
                    /\ node.params = <<VariableCall("x")>>
                    /\ ~InClassBody
                    /\ IsSome(f.res) /\ Len(function.params) = 1)
                   => (status' = "running"
                         <=> function.params[1].data_type \in NumericAliases)
                /\ (IsAssignment(node) /\ node.lhs = VariableCall("x")
                        /\ node.rhs.k = "String")
                   => status' = "failed"
       /\ \A a \in NumericAliases :
              /\ check_data_type(CDecimal, Custom(a))
              /\ check_data_type(Custom(a), CDecimal)
       /\ \A t \in {CString, Custom(StringAlias)} :
              ~check_data_type(CDecimal, t) /\ ~check_data_type(t, CDecimal)]_vars_

\* x was declared by var x = 5 and then passed to f, whose parameter is a
\* c_int, inside the function m
C6_Witness ==
    /\ status = "running"
    /\ last.op = "check_node"
    /\ Node = FunctionCall("f", <<VariableCall("x")>>)
    /\ frames[Len(frames)].kind = "function"
    /\ DecimalVariable("x")

\* C11: every assignment that checks successfully has a target that
\* resolved to a Variable symbol; a target that resolves to a class, to a
\* function or to no symbol (a literal, a call result) is rejected.
C11_VariableTargets ==
    [][(last'.op = "check_node" /\ IsAssignment(Node') /\ status' = "running")
        => LET l == check_node(St, Node'.lhs)
           IN /\ l.out = "ok"
              /\ IsSome(l.info.symbol)
              /\ Unwrap(l.info.symbol).k = "Variable"]_vars_

\* name is a field of a class whose body is not being checked, and
\* no scope of the chain declares name as a variable or a class
ForeignField(name) ==
    /\ \E c \in 1..Len(classes) :
           /\ Bound(vars, classes[c].fields, name)
           /\ \A i \in 1..Len(frames) : frames[i].class # c
    /\ \A i \in 1..Len(scope) :
           /\ ~Bound(vars, scope[i].variables, name)
           /\ ~Bound(classes, scope[i].classes, name)

\* C12: once a class declaration is checked, a bare reference to one of its
\* field names from outside the class fails as unresolved, unless the
\* referencing scope chain declares that name itself.
C12_FieldsHidden ==
    [][(last'.op = "check_node" /\ Node'.k = "VariableCall" /\ ForeignField(Node'.v))
        => status' = "failed"]_vars_

Ids(ids) == {ids[n] : n \in 1..Len(ids)}
Entered(op) == last'.op = op /\ last'.out = "ok"

\* C13: scopes are pushed and popped strictly. Entering a function body or
\* a class body registers the one new symbol in the current scope and puts
\* one new scope on top of it; while the body is checked no scope below the
\* current one changes; leaving the body drops exactly the top scope, so
\* the current scope is the one from before with only the new symbol added,
\* and no parameter, self or variable of the body resolves by bare name.
C13_PushPop ==
    [][LET d == Len(scope) IN
       /\ \A i \in 1..(d - 1) : ~IsSome(scope[i].selected)
       /\ \A i \in 1..(d - 1) : i <= Len(scope') => scope'[i] = scope[i]
       /\ Entered("enter_function")
          => /\ Len(scope') = d + 1
             /\ scope'[d] = [scope[d] EXCEPT !.selected = None,
                                             !.functions = Append(@, Len(funs) + 1)]
             /\ scope'[d + 1].scope.k = "Function"
             /\ <<vars', classes'>> = <<vars, classes>> \/ Node'.params # <<>>
       /\ Entered("enter_class")
          => /\ Len(scope') = d + 1
             /\ scope'[d] = [scope[d] EXCEPT !.selected = None,
                                             !.classes = Append(@, Len(classes) + 1)]
             /\ scope'[d + 1].scope.k = "Class"
             /\ funs' = funs
       /\ last'.op \in {"exit_function", "exit_class"}
          => /\ Len(scope') = d - 1
             /\ \A id \in Ids(scope[d].variables) :
                    LET v == get_variable(St', scope', d - 1, vars[id].name)
                    IN IsSome(v.res) => Unwrap(v.res) \notin Ids(scope[d].variables)]_vars_

\* the body of a method with a parameter, in which a variable was declared,
\* was left: the class scope is current again
C13_Witness ==
    /\ last.op = "exit_function"
    /\ scope[Len(scope)].scope.k = "Class"
    /\ Node.params # <<>>
    /\ \E n \in 1..Len(Unwrap(Node.body)) :
           Unwrap(Node.body)[n].k = "VariableDefinition"

\* the classes that hold the record id as a field
ClassesOf(id) == {c \in 1..Len(classes) : id \in Ids(classes[c].fields)}
\* the record the name resolves to right of the dot of class c
ThroughClassIn(st, c, name) ==
    get_variable(st, <<MemberScope(st.classes[c])>>, 1, name).res
ThroughClass(c, name) == ThroughClassIn(St, c, name)
\* every field of a class is the record its body scope holds under that name
OneRecord ==
    \A c \in 1..Len(classes) : \A id \in Ids(classes[c].fields) :
        /\ ThroughClass(c, vars[id].name) = Some(id)
        /\ \A i \in 1..Len(frames) :
               frames[i].class = c
               => \E j \in 1..Len(scope[i].variables) :
                      /\ scope[i].variables[j] = id
                      /\ Find(vars, scope[i].variables, vars[id].name) = j

\* C14: a class field is one record on every path. The record a bare name
\* holds in the class body is the record self.f and inst.f resolve to; an
\* assignment through any path marks that record initialized and leaves it
\* typed, and when the record is an initialized constant an assignment
\* through any path is rejected.
C14_SharedField ==
    [][/\ OneRecord'
       /\ (last'.op = "check_node" /\ IsAssignment(Node'))
          => LET l == check_node(St, Node'.lhs)
                 id == Unwrap(l.info.symbol).id
             IN (l.out = "ok" /\ IsSome(l.info.symbol)
                   /\ Unwrap(l.info.symbol).k = "Variable"
                   /\ ClassesOf(id) # {})
                => /\ (vars[id].var_type = "Constant" /\ vars[id].initialized)
                      => status' = "failed"
                   /\ status' = "running"
                      => /\ vars'[id].initialized
                         /\ IsSome(vars'[id].data_type)
                         /\ \A c \in ClassesOf(id) :
                                ThroughClassIn(St', c, vars[id].name) = Some(id)]_vars_

\* the constant field x, declared without initializer, was assigned in the
\* method m, and the assignment through the instance i was then rejected
C14_Witness ==
    /\ status = "failed"
    /\ last.op = "check_node"
    /\ Node = Assign(Member(VariableCall("i"), VariableCall("x")), Decimal("7"))
    /\ \E id \in 1..Len(vars) :
           /\ ClassesOf(id) # {}
           /\ vars[id].name = "x"
           /\ vars[id].var_type = "Constant"
           /\ vars[id].initialized
    /\ \E id \in 1..Len(vars) : vars[id].name = "i"
    /\ Len(frames) = 1
    /\ Len(frames[1].body) >= 1
    /\ LET class == frames[1].body[1]
           method == class.body[2]
       IN /\ class.k = "ClassDefinition"
          /\ Len(class.body) = 2
          /\ class.body[1] = VariableDefinition("Constant", "x", Some("c_int"), None)
          /\ method.k = "FunctionDefinition"
          /\ Unwrap(method.body) = <<Assign(Member(This, VariableCall("x")), Five)>>

DataTypes ==
    {Void, CDecimal, CString}
    \cup {Custom(n) : n \in NumericAliases \cup {StringAlias, "C", "int"}}

\* the types a step compares: for an assignment to a typed variable the
\* type of the value (expected) and of the variable (found), for a call with
\* one argument the type of the parameter (expected) and of the argument
\* (found); no pair for any other step
Compared(node) ==
    IF IsAssignment(node) THEN
        LET l == check_node(St, node.lhs)
            r == check_node(l.st, node.rhs)
        IN IF /\ l.out = "ok" /\ r.out = "ok" /\ ~InClassBody
              /\ IsSome(l.info.symbol) /\ Unwrap(l.info.symbol).k = "Variable"
              /\ ~bad_target(r.st, l.info)
              /\ IsSome(l.info.data_type) /\ IsSome(r.info.data_type)
           THEN {<<Unwrap(r.info.data_type), Unwrap(l.info.data_type)>>}
           ELSE {}
    ELSE IF node.k = "FunctionCall" /\ Len(node.params) = 1 /\ IsValue(node.params[1]) THEN
        LET f == get_function(St, scope, Len(scope), node.name)
            p == check_node([St EXCEPT !.scope = f.scope], node.params[1])
        IN IF /\ IsSome(f.res) /\ p.out = "ok" /\ ~InClassBody
              /\ Len(funs[Unwrap(f.res)].params) = 1
              /\ IsSome(p.info.data_type)
           THEN {<<Custom(funs[Unwrap(f.res)].params[1].data_type),
                   Unwrap(p.info.data_type)>>}
           ELSE {}
    ELSE {}

\* C15: type compatibility is symmetric: check_data_type(a, b) equals
\* check_data_type(b, a) for every pair of types, and a step that compares
\* an expected with a found type is accepted exactly when the two types
\* match in the opposite order.
C15_Symmetric ==
    [][/\ \A a \in DataTypes, b \in DataTypes :
              check_data_type(a, b) = check_data_type(b, a)
       /\ last'.op = "check_node"
          => \A pair \in Compared(Node') :
                 status' = "running" <=> check_data_type(pair[2], pair[1])]_vars_

\* a was assigned the literal 5 (the literal's type expected, the alias
\* found) and 5 was passed for the parameter of g (the alias expected, the
\* literal's type found)
C15_Witness ==
    /\ status = "running"
    /\ last.op = "check_node"
    /\ Node = FunctionCall("g", <<Five>>)
    /\ \E n \in 1..Len(frames[Len(frames)].body) :
           frames[Len(frames)].body[n] = Assign(VariableCall("a"), Five)

\* the compatibility relation as the whitelist states it
Whitelist(a, b) ==
    \/ a = b
    \/ a = CDecimal /\ b.k = "Custom" /\ b.name \in NumericAliases
    \/ b = CDecimal /\ a.k = "Custom" /\ a.name \in NumericAliases
    \/ a = CString /\ b = Custom(StringAlias)
    \/ b = CString /\ a = Custom(StringAlias)

\* C16: check_data_type(a, b) holds only when a = b, or one side is the
\* decimal type and the other one of the six numeric aliases, or one side
\* is the string type and the other c_string. Void matches only Void, the
\* decimal type never matches the string type, two distinct named types
\* never match; a step that compares an expected with a found type is
\* accepted exactly for the pairs of this whitelist.
C16_Whitelist ==
    [][/\ \A a \in DataTypes, b \in DataTypes :
              check_data_type(a, b) <=> Whitelist(a, b)
       /\ \A a \in DataTypes : check_data_type(Void, a) => a = Void
       /\ ~check_data_type(CDecimal, CString)
       /\ \A a \in DataTypes, b \in DataTypes :
              (a.k = "Custom" /\ b.k = "Custom" /\ a # b) => ~check_data_type(a, b)
       /\ last'.op = "check_node"
          => \A pair \in Compared(Node') :
                 status' = "running" <=> Whitelist(pair[1], pair[2])]_vars_

\* the c_long variable d was assigned to the c_int variable a, and the
\* assignment was rejected
C16_Witness ==
    /\ status = "failed"
    /\ last.op = "check_node"
    /\ Node = Assign(VariableCall("a"), VariableCall("d"))
    /\ \E id \in 1..Len(vars) : vars[id].name = "a" /\ vars[id].data_type = Some(Custom("c_int"))
    /\ \E id \in 1..Len(vars) : vars[id].name = "d" /\ vars[id].data_type = Some(Custom("c_long"))

CurrentScope == scope[Len(scope)].scope

\* C17: a return checks successfully only when the current scope is a
\* Function scope and the type of the returned expression is compatible
\* with the declared return type of that function (an untyped variable
\* takes that type); at Root level and in a class body it fails. In a
\* Function scope a value of a compatible type is accepted.
C17_ReturnInFunction ==
    [][(last'.op = "check_node" /\ Node'.k = "Return")
        => LET v == check_node(St, Node'.value)
               data_type == CurrentScope.data_type
               id == Unwrap(v.info.symbol).id
           IN /\ CurrentScope.k # "Function" => status' = "failed"
              /\ status' = "running"
                 => /\ CurrentScope.k = "Function"
                    /\ v.out = "ok"
                    /\ IF IsSome(v.info.data_type)
                       THEN check_data_type(data_type, Unwrap(v.info.data_type))
                       ELSE vars'[id].data_type = Some(data_type)
              /\ (/\ CurrentScope.k = "Function"
                  /\ v.out = "ok"
                  /\ IsSome(v.info.data_type)
                  /\ check_data_type(data_type, Unwrap(v.info.data_type)))
                 => status' = "running"]_vars_

\* the inferred variable x was returned from f, which returns c_int
C17_Witness ==
    /\ status = "running"
    /\ last.op = "check_node"
    /\ Node = Return(VariableCall("x"))
    /\ CurrentScope = FunctionType("f", Custom("c_int"))
    /\ DecimalVariable("x")

\* C18: checking a function declaration, with or without a body, while the
\* current scope is a Function scope fails and registers nothing, whatever
\* its name, parameters and body.
C18_NoNestedFunctions ==
    [][(/\ last'.op \in {"check_node", "enter_function"}
        /\ Node'.k = "FunctionDefinition"
        /\ CurrentScope.k = "Function")
        => /\ status' = "failed"
           /\ funs' = funs
           /\ Len(scope') = Len(scope)]_vars_

\* in the body of f the declaration of g, a name no scope binds, was
\* rejected
C18_Witness ==
    /\ status = "failed"
    /\ last.op = "enter_function"
    /\ Node.name = "g"
    /\ CurrentScope.k = "Function"
    /\ ~Resolvable("g")

\* the variable symbol and the expected type of the inference a step makes:
\* a return of, or an assignment of a literal to, a variable without type
Inferred(node) ==
    LET value == IF node.k = "Return" THEN node.value ELSE node.lhs
        v == check_node(St, value)
        here == /\ v.out = "ok"
                /\ ~IsSome(v.info.data_type)
                /\ IsSome(v.info.symbol)
                /\ Unwrap(v.info.symbol).k = "Variable"
    IN IF node.k = "Return" /\ CurrentScope.k = "Function" /\ here
           THEN {<<Unwrap(v.info.symbol).id, CurrentScope.data_type>>}
       ELSE IF IsAssignment(node) /\ ~InClassBody /\ here /\ node.rhs.k = "Decimal"
           THEN {<<Unwrap(v.info.symbol).id, CDecimal>>}
       ELSE {}

\* C19: infer_and_check on an expression without type whose symbol is a
\* variable without type gives the variable the expected type and
\* completes.
C19_InferenceCompletes ==
    [][(last'.op = "check_node" /\ Node'.k \in {"Return", "BinaryOperation"})
        => \A pair \in Inferred(Node') :
               /\ status' = "running"
               /\ vars'[pair[1]].data_type = Some(pair[2])]_vars_

\* C20: the type of a variable symbol is written at most once: a symbol
\* that has a type keeps it through every later step.
C20_TypeWrittenOnce ==
    [][\A id \in 1..Len(vars) :
           IsSome(vars[id].data_type)
           => /\ id <= Len(vars')
              /\ vars'[id].data_type = vars[id].data_type]_vars_

\* x was declared without type, typed by the assignment of a literal, and
\* then returned from f, whose return type is another, compatible type
C20_Witness ==
    /\ status = "running"
    /\ last.op = "check_node"
    /\ Node = Return(VariableCall("x"))
    /\ CurrentScope = FunctionType("f", Custom("c_int"))
    /\ frames[1].body = <<VariableDefinition("Variable", "x", None, None),
                          Assign(VariableCall("x"), Five)>>
    /\ DecimalVariable("x")

\* C21: a constant declared with an annotation and no initializer accepts
\* exactly one assignment. While its initialized flag is false an assignment
\* of a compatible value to it succeeds and sets the flag; once the flag is
\* set every assignment to it, from any scope and through any path, is
\* rejected; no step sets an initialized flag back to false.
C21_AssignedOnce ==
    [][/\ \A id \in 1..Len(vars) :
              vars[id].initialized => (id <= Len(vars') /\ vars'[id].initialized)
       /\ (last'.op = "check_node" /\ IsAssignment(Node'))
          => LET l == check_node(St, Node'.lhs)
                 r == check_node(l.st, Node'.rhs)
                 id == Unwrap(l.info.symbol).id
             IN (/\ l.out = "ok" /\ IsSome(l.info.symbol)
                 /\ Unwrap(l.info.symbol).k = "Variable"
                 /\ vars[id].var_type = "Constant"
                 /\ IsSome(vars[id].data_type))
                => /\ vars[id].initialized => status' = "failed"
                   /\ (/\ ~vars[id].initialized
                       /\ ~InClassBody
                       /\ r.out = "ok" /\ IsSome(r.info.data_type)
                       /\ check_data_type(Unwrap(r.info.data_type),
                                          Unwrap(vars[id].data_type)))
                      => (status' = "running" /\ vars'[id].initialized)]_vars_

\* the constant x, declared at Root with an annotation only, was assigned
\* once at Root, and its second assignment, in the body of m, was rejected
C21_Witness ==
    /\ status = "failed"
    /\ last.op = "check_node"
    /\ Node = Assign(VariableCall("x"), Five)
    /\ CurrentScope.k = "Function"
    /\ frames[1].body = <<VariableDefinition("Constant", "x", Some("c_int"), None),
                          Assign(VariableCall("x"), Five)>>

\* C22: a variable declaration without annotation whose initializer has a
\* known type succeeds for every such type: the variable is registered with
\* the initializer's type (the decimal type for a numeric literal, the
\* string type for a quoted literal) and the rewritten declaration carries
\* that type.
C22_InitializerTyped ==
    [][(/\ last'.op = "check_node"
        /\ Node'.k = "VariableDefinition"
        /\ ~IsSome(Node'.data_type)
        /\ IsSome(Node'.value))
        => LET node == Node'
               shadow == get_variable(St, scope, Len(scope), node.name)
               v == check_node([St EXCEPT !.scope = shadow.scope], Unwrap(node.value))
               new_body == frames'[Len(frames')].new_body
               rewritten == new_body[Len(new_body)]
           IN (~IsSome(shadow.res) /\ v.out = "ok" /\ IsSome(v.info.data_type))
              => /\ status' = "running"
                 /\ Len(vars') = Len(vars) + 1
                 /\ vars'[Len(vars')].data_type = v.info.data_type
                 /\ node.value = Some(Five) => vars'[Len(vars')].data_type = Some(CDecimal)
                 /\ node.value = Some(String("s"))
                    => vars'[Len(vars')].data_type = Some(CString)
                 /\ rewritten.k = "VariableDefinition"
                 /\ IsSome(rewritten.data_type)]_vars_

\* C23: when the check of a member access lhs.rhs completes, the current
\* scope holds no override, whatever node stands right of the dot (a name, a
\* call, a literal, self).
C23_NoOverrideLeft ==
    [][(last'.op = "check_node" /\ IsMemberAccess(Node') /\ status' = "running")
        => ~IsSome(scope'[Len(scope')].selected)]_vars_

\* an argument of the call holds a call
RECURSIVE HasCall(_)
HasCall(node) ==
    \/ node.k = "FunctionCall"
    \/ node.k = "BinaryOperation" /\ (HasCall(node.lhs) \/ HasCall(node.rhs))
NestedCall(node) ==
    /\ node.k = "FunctionCall"
    /\ \E n \in 1..Len(node.params) : HasCall(node.params[n])

\* C24: the check of a call whose argument holds a call, to a function with
\* at least one parameter, ends with a result or with an error: no lock is
\* requested on a record whose lock is held.
C24_NoRelock ==
    [][(/\ last'.op = "check_node"
        /\ NestedCall(Node')
        /\ LET f == get_function(St, scope, Len(scope), Node'.name)
           IN IsSome(f.res) /\ funs[Unwrap(f.res)].params # <<>>)
        => /\ last'.out \in {"ok", "panic"}
           /\ status' \in {"running", "failed"}]_vars_

\* the function definition whose body is being checked
Enclosing == frames[Len(frames)].node
InFunctionBody == frames[Len(frames)].kind = "function"
SelfCall(node) ==
    /\ InFunctionBody
    /\ node.k = "FunctionCall"
    /\ node.name = Enclosing.name
    /\ ~IsSome(scope[Len(scope)].selected)

InMethodBody ==
    /\ InFunctionBody
    /\ Len(frames) >= 2
    /\ frames[Len(frames) - 1].kind = "class"
SelfMethodCall(node) ==
    /\ InMethodBody
    /\ IsMemberAccess(node)
    /\ node.lhs = This
    /\ node.rhs.k = "FunctionCall"
    /\ node.rhs.name = Enclosing.name
    /\ ~IsSome(scope[Len(scope)].selected)

\* C26: in the body of a method m of class C, self.m(...) resolves to m:
\* when the access is resolved every function in the function table of the
\* class scope is in the method list of C, the lookup right of the dot finds
\* m, and a call with arguments that fit m's parameters is accepted.
C26_SelfRecursion ==
    [][(last'.op = "check_node" /\ SelfMethodCall(Node'))
        => LET c == frames[Len(frames) - 1].class
               f == get_function(St, <<MemberScope(classes[c])>>, 1, Node'.rhs.name)
           IN /\ Ids(scope[Len(scope) - 1].functions) \subseteq Ids(classes[c].functions)
              /\ IsSome(f.res)
              /\ funs[Unwrap(f.res)].name = Enclosing.name
              /\ Len(Node'.rhs.params) = Len(Enclosing.params) => last'.out = "ok"]_vars_

RECURSIVE NamesOf(_, _)
\* the names the nodes of kind k declare, in the order of the body
NamesOf(body, k) ==
    IF body = <<>> THEN <<>>
    ELSE (IF body[1].k = k THEN <<body[1].name>> ELSE <<>>) \o NamesOf(Tail(body), k)
Front(s) == SubSeq(s, 1, Len(s) - 1)
MembersListed ==
    \A i \in 1..Len(frames) :
        frames[i].kind = "class" =>
            LET class == classes[frames[i].class]
                between == i = Len(frames)
            IN /\ Len(scope[i].variables) >= 1
               /\ vars[scope[i].variables[1]].name = "self"
               /\ scope[i].variables[1] \notin Ids(class.fields)
               /\ class.fields = Tail(scope[i].variables)
               /\ [n \in 1..Len(class.fields) |-> vars[class.fields[n]].name]
                      = NamesOf(frames[i].body, "VariableDefinition")
               /\ class.functions =
                      IF between THEN scope[i].functions ELSE Front(scope[i].functions)
               /\ [n \in 1..Len(class.functions) |-> funs[class.functions[n]].name]
                      = NamesOf(frames[i].body, "FunctionDefinition")

\* C27: while a class body is checked, after each member the field list of
\* the class symbol is the variables declared in the body so far, in
\* declaration order, and its method list is the functions declared so far,
\* in declaration order (a method whose body is still being checked is not
\* yet listed); self, the first variable of the class scope, is never a
\* field; a node of any other kind in the class body aborts the check.
C27_ClassMembers ==
    [][/\ MembersListed'
       /\ (InClassBody /\ last'.op \in {"check_node", "enter_class"}
              /\ ~ClassMember(Node'))
            => status' = "failed" /\ last'.out = "panic"]_vars_

\* two fields and a method, after the method
C27_Witness ==
    /\ InClassBody
    /\ status = "running"
    /\ last.op = "exit_function"
    /\ Len(classes[frames[Len(frames)].class].fields) = 2
    /\ Len(classes[frames[Len(frames)].class].functions) = 1

\* the records of the parameters of the functions whose body is open
ParamIds ==
    UNION {{scope[i].variables[j] : j \in 1..Len(frames[i].node.params)} :
             i \in {k \in 1..Len(frames) : frames[k].kind = "function"}}
TargetsParam(node) ==
    LET l == check_node(St, node.lhs) IN
    /\ l.out = "ok"
    /\ IsSome(l.info.symbol)
    /\ Unwrap(l.info.symbol).k = "Variable"
    /\ Unwrap(l.info.symbol).id \in ParamIds

ChainBindings ==
    UNION {{<<i, j>> : j \in 1..Len(scope[i].variables)} : i \in 1..Len(scope)}

\* C29: along the chain from the current scope to Root no name is bound by
\* more than one variable symbol, counting declared variables, parameters
\* and self.
C29_OneBinding ==
    \A p \in ChainBindings : \A q \in ChainBindings :
        vars[scope[p[1]].variables[p[2]]].name = vars[scope[q[1]].variables[q[2]]].name
            => p = q

VariableBound(name) == \E i \in 1..Len(scope) : Bound(vars, scope[i].variables, name)
FunctionBound(name) == \E i \in 1..Len(scope) : Bound(funs, scope[i].functions, name)
Redeclares(node) ==
    \/ node.k = "VariableDefinition" /\ VariableBound(node.name)
    \/ node.k = "FunctionDefinition" /\ FunctionBound(node.name)

\* C30: a variable declaration whose name a variable of the current scope
\* or of an ancestor scope already bears is rejected, at Root and in every
\* body, and so is a function declaration whose name a function of the
\* chain already bears.
C30_Redeclaration ==
    [][(last'.op \in {"check_node", "enter_function"} /\ Redeclares(Node'))
        => last'.out = "panic" /\ status' = "failed"]_vars_

\* the same, for declarations looked up on the chain itself
C30_OnChain ==
    [][(/\ last'.op \in {"check_node", "enter_function"}
        /\ Redeclares(Node')
        /\ ~IsSome(scope[Len(scope)].selected))
        => last'.out = "panic" /\ status' = "failed"]_vars_

====
